---------------------------- MODULE Spec2Model ----------------------------
(***************************************************************************)
(* cpm_valid_version (cmake/cpm_valid_version.cmake): the version          *)
(* constraint validator of the repository, as a state machine; and the     *)
(* string functions of the layered components Spi, Crypto and Osal.        *)
(*                                                                         *)
(* A CMake string is a sequence of one-character strings, so that the      *)
(* regular expressions, the truth test of if() and the VERSION_* comparison *)
(* operators are computed character by character, as CMake computes them.  *)
(***************************************************************************)
EXTENDS Integers, Sequences, FiniteSets

VARIABLES
    candidate,            \* the candidate as the caller means it (a version or raw text)
    ruleSet,              \* the rule list as the caller means it (tagged rules)
    COMPONENT_NAME,       \* argument 1
    PACKAGE_NAME,         \* argument 2
    ARGN,                 \* the rule strings, arguments 3..
    CPM_PACKAGE_VERSION,  \* CPM_PACKAGE_<PACKAGE_NAME>_VERSION, the resolved version
    pc,                   \* position in the function body
    PACKAGE_VERSION,
    VERSION_RULES,
    VERSION_PARTS,
    VERSION_MAJOR,
    VERSION_MINOR,
    VERSION_PATCH,
    VERSION_APPROVED,
    EXCLUSIONS,
    ruleIdx,              \* foreach(RULE ${VERSION_RULES}): index of the next rule
    exclIdx,              \* foreach(EXCLUDED_VERSION ${EXCLUSIONS}): index of the next one
    messages,             \* the diagnostic stream: what message() has emitted
    calls,                \* how many calls with these arguments have been started
    callerScope,          \* the variables of the calling scope that bear the function's names
    other,                \* a second call, for another package, that is not running now
    FMT_VERSION,          \* the macro of <fmt/base.h>: major * 10000 + minor * 100 + patch
    NLOHMANN_JSON_VERSION, \* NLOHMANN_JSON_VERSION_MAJOR, _MINOR and _PATCH
    called,               \* the member function of Spi, Crypto or Osal called last
    argument,             \* its argument
    returned              \* the string it returned

vars == << candidate, ruleSet, COMPONENT_NAME, PACKAGE_NAME, ARGN,
           CPM_PACKAGE_VERSION, pc, PACKAGE_VERSION, VERSION_RULES,
           VERSION_PARTS, VERSION_MAJOR, VERSION_MINOR, VERSION_PATCH,
           VERSION_APPROVED, EXCLUSIONS, ruleIdx, exclIdx, messages,
           calls, callerScope, other,
           FMT_VERSION, NLOHMANN_JSON_VERSION, called, argument, returned >>

inputs == << candidate, ruleSet, COMPONENT_NAME, PACKAGE_NAME, ARGN,
             CPM_PACKAGE_VERSION >>

locals == << PACKAGE_VERSION, VERSION_RULES, VERSION_PARTS, VERSION_MAJOR,
             VERSION_MINOR, VERSION_PATCH, VERSION_APPROVED, EXCLUSIONS,
             ruleIdx, exclIdx >>

\* what lies outside the running call
caller == << calls, callerScope, other >>

\* the layered components
hal == << FMT_VERSION, NLOHMANN_JSON_VERSION, called, argument, returned >>

-----------------------------------------------------------------------------
(* Bounds of the model.                                                    *)

\* the longest rule list a call is given
MaxRules == 2

\* the candidate versions 1.9.p take every patch p in 0..MaxPatch
MaxPatch == 3

\* how often a call is made with the same arguments
MaxCalls == 2

-----------------------------------------------------------------------------
(* Characters and strings.                                                 *)

DigitChars == << "0", "1", "2", "3", "4", "5", "6", "7", "8", "9" >>

Digits == { DigitChars[i] : i \in 1..10 }

IsDigit(c) == c \in Digits

\* the numeric order of the digit characters, as strncmp sees them
DigitVal(c) == CHOOSE n \in 0..9 : DigitChars[n + 1] = c

\* the character s[i], or "" (the terminating NUL) past the end
CharAt(s, i) == IF i >= 1 /\ i <= Len(s) THEN s[i] ELSE ""

\* the decimal text of a natural number
RECURSIVE DecimalText(_)
DecimalText(n) ==
    IF n < 10 THEN << DigitChars[n + 1] >>
    ELSE DecimalText(n \div 10) \o << DigitChars[(n % 10) + 1] >>

\* list(JOIN <list> <glue> <out>)
RECURSIVE ListJoin(_, _)
ListJoin(list, glue) ==
    IF list = << >> THEN << >>
    ELSE IF Len(list) = 1 THEN list[1]
    ELSE list[1] \o glue \o ListJoin(Tail(list), glue)

\* string(REPLACE "." ";" ...) followed by list access: the fields between dots
RECURSIVE SplitDots(_)
SplitDots(s) ==
    IF \A i \in 1..Len(s) : s[i] /= "." THEN << s >>
    ELSE LET k == CHOOSE i \in 1..Len(s) :
                      s[i] = "." /\ \A j \in 1..(i - 1) : s[j] /= "."
         IN << SubSeq(s, 1, k - 1) >> \o SplitDots(SubSeq(s, k + 1, Len(s)))

-----------------------------------------------------------------------------
(* CMake's primitives, as the function uses them.                          *)

LowerChars == << "a", "b", "c", "d", "e", "f", "g", "i", "l", "n", "o", "r",
                 "s", "t", "u" >>

UpperChars == << "A", "B", "C", "D", "E", "F", "G", "I", "L", "N", "O", "R",
                 "S", "T", "U" >>

ToUpperChar(c) ==
    IF \E i \in 1..Len(LowerChars) : LowerChars[i] = c
    THEN UpperChars[CHOOSE i \in 1..Len(LowerChars) : LowerChars[i] = c]
    ELSE c

ToUpper(s) == [i \in 1..Len(s) |-> ToUpperChar(s[i])]

NotFoundSuffix == << "-", "N", "O", "T", "F", "O", "U", "N", "D" >>

\* the false constants of if(): 0, N, NO, OFF, FALSE, IGNORE, NOTFOUND
FalseConstants ==
    { << "0" >>, << "N" >>, << "N", "O" >>, << "O", "F", "F" >>,
      << "F", "A", "L", "S", "E" >>, << "I", "G", "N", "O", "R", "E" >>,
      << "N", "O", "T", "F", "O", "U", "N", "D" >> }

\* if(NOT <variable>): true when the value is empty, a false constant
\* (whatever its case) or ends in -NOTFOUND
IsOff(value) ==
    LET upper == ToUpper(value) IN
    \/ value = << >>
    \/ upper \in FalseConstants
    \/ /\ Len(value) >= Len(NotFoundSuffix)
       /\ SubSeq(upper, Len(value) - Len(NotFoundSuffix) + 1, Len(value))
              = NotFoundSuffix

\* while (*end == '0') end++: the first position at or after i that holds no "0"
RECURSIVE SkipZeros(_, _)
SkipZeros(s, i) == IF CharAt(s, i) = "0" THEN SkipZeros(s, i + 1) ELSE i

\* while (isdigit(*end)) end++: the first position at or after i that holds no digit
RECURSIVE SkipDigits(_, _)
SkipDigits(s, i) == IF IsDigit(CharAt(s, i)) THEN SkipDigits(s, i + 1) ELSE i

\* strncmp over n digit characters of l from bl and of r from br: -1, 0 or 1
RECURSIVE StrNCmp(_, _, _, _, _)
StrNCmp(l, bl, r, br, n) ==
    IF n = 0 THEN 0
    ELSE IF l[bl] = r[br] THEN StrNCmp(l, bl + 1, r, br + 1, n - 1)
    ELSE IF DigitVal(l[bl]) < DigitVal(r[br]) THEN -1 ELSE 1

\* the digit runs compared as text, character by character, the way strcmp does
ComponentCompareAsText(l, bl, el, r, br, er) ==
    LET n == IF (el - bl) < (er - br) THEN el - bl ELSE er - br
        c == StrNCmp(l, bl, r, br, n)
    IN IF c /= 0 THEN c
       ELSE IF (el - bl) = (er - br) THEN 0
       ELSE IF (el - bl) < (er - br) THEN -1 ELSE 1

\* One component of the VERSION_* comparison: leading zeros are skipped, the
\* longer run of digits is the greater, equal runs compare digit by digit.
ComponentCompare(l, bl, el, r, br, er) ==
    IF (el - bl) /= (er - br)
    THEN (IF (el - bl) < (er - br) THEN -1 ELSE 1)
    ELSE StrNCmp(l, bl, r, br, el - bl)

\* if(<l> VERSION_xxx <r>): the sign of the comparison of l from position i
\* with r from position j. The loop runs while either side shows a digit; a
\* side that shows none contributes an empty component, which counts as 0.
RECURSIVE VersionCompareFrom(_, _, _, _)
VersionCompareFrom(l, i, r, j) ==
    IF ~(IsDigit(CharAt(l, i)) \/ IsDigit(CharAt(r, j))) THEN 0
    ELSE LET bl == SkipZeros(l, i)
             br == SkipZeros(r, j)
             el == SkipDigits(l, bl)
             er == SkipDigits(r, br)
             c  == ComponentCompare(l, bl, el, r, br, er)
         IN IF c /= 0 THEN c
            ELSE VersionCompareFrom(
                     l, IF CharAt(l, el) = "." THEN el + 1 ELSE el,
                     r, IF CharAt(r, er) = "." THEN er + 1 ELSE er)

VersionCompare(l, r) == VersionCompareFrom(l, 1, r, 1)

VERSION_EQUAL(l, r) == VersionCompare(l, r) = 0

VERSION_GREATER_EQUAL(l, r) == VersionCompare(l, r) >= 0

VERSION_LESS_EQUAL(l, r) == VersionCompare(l, r) <= 0

\* an exclusion pattern that takes a single version only: "!" and no ".."
MatchesExclusionOfVersion(rule) ==
    /\ Len(rule) >= 2
    /\ rule[1] = "!"
    /\ \A i \in 2..(Len(rule) - 1) : ~(rule[i] = "." /\ rule[i + 1] = ".")

\* RULE MATCHES "^!(.+)$"
MatchesExclusion(rule) == Len(rule) >= 2 /\ rule[1] = "!"

\* CMAKE_MATCH_1 of the exclusion pattern
ExclusionMatch1(rule) == Tail(rule)

\* every character of the rule is in [0-9.]
OnlyDigitsAndDots(rule) == \A i \in 1..Len(rule) : IsDigit(rule[i]) \/ rule[i] = "."

\* "..." at the characters k, k+1, k+2, with text before it and after it
IsSeparatorAt(rule, k) ==
    /\ k >= 2
    /\ k + 3 <= Len(rule)
    /\ rule[k] = "." /\ rule[k + 1] = "." /\ rule[k + 2] = "."

\* the last separator at or before k, or 0: the first group of the pattern
\* is greedy, so the match takes the last separator that fits
RECURSIVE LastSeparator(_, _)
LastSeparator(rule, k) ==
    IF k < 2 THEN 0
    ELSE IF IsSeparatorAt(rule, k) THEN k
    ELSE LastSeparator(rule, k - 1)

\* where RULE MATCHES "^([0-9.]+)\\.\\.\\.([0-9.]+)$" finds its separator, or 0
RangeSplit(rule) ==
    IF OnlyDigitsAndDots(rule) THEN LastSeparator(rule, Len(rule) - 3) ELSE 0

MatchesRange(rule) == RangeSplit(rule) /= 0

\* CMAKE_MATCH_1 and CMAKE_MATCH_2 of the range pattern
RangeMatch1(rule) == SubSeq(rule, 1, RangeSplit(rule) - 1)

RangeMatch2(rule) == SubSeq(rule, RangeSplit(rule) + 3, Len(rule))

-----------------------------------------------------------------------------
(* The inputs of a call.  A version is a sequence of numbers; a candidate  *)
(* is a version or raw text; a rule is exact, a range, an exclusion or raw *)
(* text.  The call receives their texts.                                   *)

Dots3 == << ".", ".", "." >>

\* "a.b.c" for << a, b, c >>
VersionText(parts) ==
    ListJoin([i \in 1..Len(parts) |-> DecimalText(parts[i])], << "." >>)

CandidateText(c) == IF c.kind = "version" THEN VersionText(c.parts) ELSE c.text

RuleText(rule) ==
    CASE rule.kind = "exact"     -> VersionText(rule.v)
      [] rule.kind = "range"     -> VersionText(rule.min) \o Dots3 \o VersionText(rule.max)
      [] rule.kind = "exclusion" -> << "!" >> \o VersionText(rule.v)
      [] OTHER                   -> rule.text

RuleTexts(rules) == [i \in 1..Len(rules) |-> RuleText(rules[i])]

\* the versions the rules of a call are written with
RuleVersions == { << 1, 9, 1 >>, << 1, 9, 2 >>, << 1, 10, 0 >> }

\* the versions a range starts at and the versions an exclusion names
LowVersions == { << 1, 9, 1 >>, << 1, 9, 2 >> }

\* the versions of the exact rules: one of one and one of two components too
ExactVersions ==
    { << 1, 9, 0 >>, << 1, 9, 1 >>, << 1, 10, 0 >>, << 0 >>, << 1, 9 >> }

\* rule strings that are no version, range or exclusion
MalformedRuleTexts == { << "a", "b", "c" >> }

Rules ==
    {[kind |-> "exact", v |-> v] : v \in ExactVersions}
    \cup {[kind |-> "range", min |-> lo, max |-> hi] :
              lo \in LowVersions, hi \in RuleVersions}
    \cup {[kind |-> "exclusion", v |-> v] : v \in LowVersions}
    \cup {[kind |-> "malformed", text |-> t] : t \in MalformedRuleTexts}

RECURSIVE SeqsUpTo(_, _)
SeqsUpTo(S, n) ==
    IF n = 0 THEN { << >> }
    ELSE LET shorter == SeqsUpTo(S, n - 1)
         IN shorter \cup { Append(q, x) : q \in shorter, x \in S }

RuleLists == SeqsUpTo(Rules, MaxRules)

CandidateVersions ==
    { << 1, 9, p >> : p \in 0..MaxPatch }
    \cup { << 1, 10, 0 >>, << 1, 10, 1 >>, << 2, 9, 1 >>, << 0, 0, 0 >>,
           << 0 >>, << 1, 9 >>, << 1, 9, 1, 5 >> }

\* candidates that are no version: nothing resolved, and text without a number
RawCandidateTexts == { << >>, << "a", "b", "c" >> }

Candidates ==
    {[kind |-> "version", parts |-> v] : v \in CandidateVersions}
    \cup {[kind |-> "raw", text |-> t] : t \in RawCandidateTexts}

ComponentNames == { "spi" }

PackageNames == { "fmt" }

-----------------------------------------------------------------------------
(* The call.                                                               *)

\* an unquoted ${list}: empty elements do not become arguments
DropEmpty(list) == SelectSeq(list, LAMBDA x : x /= << >>)

\* the field of VERSION_PARTS at index i (from 0), or "0" when it is missing
PartOrZero(parts, i) == IF Len(parts) >= i + 1 THEN parts[i + 1] ELSE << "0" >>

Message(level, id, version, rulesStr) ==
    [level |-> level, id |-> id, component |-> COMPONENT_NAME,
     package |-> PACKAGE_NAME, version |-> version, rules |-> rulesStr]

\* an exclusion is checked as soon as it has been read
PcAfterCheckingAtOnce(rules, ri, excl, ei) ==
    IF ei <= Len(excl) THEN "exclusions"
    ELSE IF ri <= Len(rules) THEN "rules"
    ELSE "final"

\* where control goes once rule ri and exclusion ei are the next to visit
PcAfter(rules, ri, excl, ei) ==
    IF ri <= Len(rules) THEN "rules"
    ELSE IF ei <= Len(excl) THEN "exclusions"
    ELSE "final"

\* a range that leaves its upper end out
InRangeBelowMax(version, rangeMin, rangeMax) ==
    /\ VERSION_GREATER_EQUAL(version, rangeMin)
    /\ VersionCompare(version, rangeMax) < 0

\* the test of lines 54-55
InRange(version, rangeMin, rangeMax) ==
    /\ VERSION_GREATER_EQUAL(version, rangeMin)
    /\ VERSION_LESS_EQUAL(version, rangeMax)

\* the first two fields of a dotted text
MajorMinor(text) ==
    LET fields == SplitDots(text)
    IN ListJoin(SubSeq(fields, 1, IF Len(fields) < 2 THEN Len(fields) ELSE 2),
                << "." >>)

\* an exact test that looks at major and minor only
ExactMatchIgnoringPatch(version, rule) ==
    VERSION_EQUAL(MajorMinor(version), MajorMinor(rule))

\* an exact test that compares the two texts
ExactMatchAsText(version, rule) == version = rule

\* the test of line 59
ExactMatch(version, rule) == VERSION_EQUAL(version, rule)

\* an exclusion test that an approval switches off
IsExcludedUnlessApproved(version, excluded) ==
    ~VERSION_APPROVED /\ VERSION_EQUAL(version, excluded)

\* an exclusion that takes every later version with it
IsExcludedFromVersionOn(version, excluded) ==
    VERSION_GREATER_EQUAL(version, excluded)

\* the test of line 66
IsExcluded(version, excluded) == VERSION_EQUAL(version, excluded)

\* approval as the starting point, for rules to take away
InitialApprovalTrue == TRUE

\* line 38: nothing is approved before a rule matches
InitialApproval == FALSE

\* the last acceptance rule decides
ApproveLastRule(approved, matched) == matched

\* every matching rule turns the approval over
ApproveByTurns(approved, matched) == IF matched THEN ~approved ELSE approved

\* lines 54-61: a matching rule sets VERSION_APPROVED, any other leaves it
Approve(approved, matched) == IF matched THEN TRUE ELSE approved

\* the acceptance rules alone, joined with ", "
AcceptanceRulesStr(rules) ==
    ListJoin(SelectSeq(rules, LAMBDA r : ~MatchesExclusion(r)), << ",", " " >>)

\* lines 67 and 77: list(JOIN VERSION_RULES ", " VERSION_RULES_STR)
VERSION_RULES_STR(rules) == ListJoin(rules, << ",", " " >>)

\* the version put together again from its parsed components
ParsedVersion ==
    VERSION_MAJOR \o << "." >> \o VERSION_MINOR \o << "." >> \o VERSION_PATCH

\* line 86: the version the status message names, ${PACKAGE_VERSION}
ApprovedVersion == PACKAGE_VERSION

\* an error that is reported while processing goes on
SendError(resume) == resume

\* message(FATAL_ERROR ...): processing stops, whatever would come next
FatalError(resume) == "aborted"

\* the variables of a scope that bear the names the function uses, none set
UnsetScope ==
    [PACKAGE_VERSION |-> << >>, VERSION_RULES |-> << >>,
     VERSION_PARTS |-> << >>, VERSION_MAJOR |-> << >>,
     VERSION_MINOR |-> << >>, VERSION_PATCH |-> << >>,
     VERSION_APPROVED |-> FALSE, EXCLUSIONS |-> << >>]

\* a calling scope that uses the names of the function for its own ends
BusyScope ==
    [PACKAGE_VERSION |-> << "1", ".", "9", ".", "2" >>,
     VERSION_RULES |-> << << "1", ".", "9", ".", "2" >> >>,
     VERSION_PARTS |-> << << "1" >>, << "9" >>, << "2" >> >>,
     VERSION_MAJOR |-> << "1" >>, VERSION_MINOR |-> << "9" >>,
     VERSION_PATCH |-> << "2" >>,
     VERSION_APPROVED |-> TRUE,
     EXCLUSIONS |-> << << "1", ".", "9", ".", "1" >> >>]

CallerScopes == { UnsetScope, BusyScope }

\* the variables of the running call
FunctionScope ==
    [PACKAGE_VERSION |-> PACKAGE_VERSION, VERSION_RULES |-> VERSION_RULES,
     VERSION_PARTS |-> VERSION_PARTS, VERSION_MAJOR |-> VERSION_MAJOR,
     VERSION_MINOR |-> VERSION_MINOR, VERSION_PATCH |-> VERSION_PATCH,
     VERSION_APPROVED |-> VERSION_APPROVED, EXCLUSIONS |-> EXCLUSIONS]

\* line 5, function(): the call starts on a copy of the calling scope
EntersWith(scope) ==
    /\ PACKAGE_VERSION = scope.PACKAGE_VERSION
    /\ VERSION_RULES = scope.VERSION_RULES
    /\ VERSION_PARTS = scope.VERSION_PARTS
    /\ VERSION_MAJOR = scope.VERSION_MAJOR
    /\ VERSION_MINOR = scope.VERSION_MINOR
    /\ VERSION_PATCH = scope.VERSION_PATCH
    /\ VERSION_APPROVED = scope.VERSION_APPROVED
    /\ EXCLUSIONS = scope.EXCLUSIONS
    /\ ruleIdx = 1
    /\ exclIdx = 1

\* no second call
NoCall == [pc |-> "none"]

\* the layered components are not looked at
HalAtRest ==
    /\ FMT_VERSION = 0
    /\ NLOHMANN_JSON_VERSION = << 0, 0, 0 >>
    /\ called = "none"
    /\ argument = << >>
    /\ returned = << >>

Init ==
    /\ candidate \in Candidates
    /\ ruleSet \in RuleLists
    /\ COMPONENT_NAME \in ComponentNames
    /\ PACKAGE_NAME \in PackageNames
    /\ ARGN = RuleTexts(ruleSet)
    /\ CPM_PACKAGE_VERSION = CandidateText(candidate)
    /\ pc = "start"
    /\ callerScope = UnsetScope
    /\ EntersWith(callerScope)
    /\ messages = << >>
    /\ calls = 1
    /\ other = NoCall
    /\ HalAtRest

\* lines 6-14, PACKAGE_VERSION false: the missing-version error
MissingVersion ==
    /\ pc = "start"
    /\ IsOff(CPM_PACKAGE_VERSION)
    /\ VERSION_RULES' = DropEmpty(ARGN)
    /\ PACKAGE_VERSION' = CPM_PACKAGE_VERSION
    /\ messages' = Append(messages,
           Message("FATAL_ERROR", "missing", << >>, << >>))
    /\ pc' = FatalError("parse")
    /\ UNCHANGED << caller, hal, inputs, VERSION_PARTS, VERSION_MAJOR, VERSION_MINOR,
                    VERSION_PATCH, VERSION_APPROVED, EXCLUSIONS, ruleIdx, exclIdx >>

\* lines 6-39, PACKAGE_VERSION true: the version is split and the scan set up
ParseVersion ==
    /\ pc = "start"
    /\ ~IsOff(CPM_PACKAGE_VERSION)
    /\ VERSION_RULES' = DropEmpty(ARGN)
    /\ PACKAGE_VERSION' = CPM_PACKAGE_VERSION
    /\ VERSION_PARTS' = SplitDots(CPM_PACKAGE_VERSION)
    /\ VERSION_MAJOR' = PartOrZero(VERSION_PARTS', 0)
    /\ VERSION_MINOR' = PartOrZero(VERSION_PARTS', 1)
    /\ VERSION_PATCH' = PartOrZero(VERSION_PARTS', 2)
    /\ VERSION_APPROVED' = InitialApproval
    /\ EXCLUSIONS' = << >>
    /\ ruleIdx' = 1
    /\ exclIdx' = 1
    /\ pc' = PcAfter(VERSION_RULES', 1, << >>, 1)
    /\ UNCHANGED << caller, hal, inputs, messages >>

\* lines 44-47: an exclusion rule is set aside
ExclusionRule ==
    /\ pc = "rules"
    /\ LET RULE == VERSION_RULES[ruleIdx] IN
         /\ MatchesExclusion(RULE)
         /\ EXCLUSIONS' = Append(EXCLUSIONS, ExclusionMatch1(RULE))
    /\ ruleIdx' = ruleIdx + 1
    /\ pc' = PcAfter(VERSION_RULES, ruleIdx', EXCLUSIONS', exclIdx)
    /\ UNCHANGED << caller, hal, inputs, PACKAGE_VERSION, VERSION_RULES, VERSION_PARTS,
                    VERSION_MAJOR, VERSION_MINOR, VERSION_PATCH,
                    VERSION_APPROVED, exclIdx, messages >>

\* lines 50-57: a range rule approves a version inside it
RangeRule ==
    /\ pc = "rules"
    /\ LET RULE == VERSION_RULES[ruleIdx] IN
         /\ ~MatchesExclusion(RULE)
         /\ MatchesRange(RULE)
         /\ VERSION_APPROVED' =
               Approve(VERSION_APPROVED,
                       InRange(PACKAGE_VERSION, RangeMatch1(RULE), RangeMatch2(RULE)))
    /\ ruleIdx' = ruleIdx + 1
    /\ pc' = PcAfter(VERSION_RULES, ruleIdx', EXCLUSIONS, exclIdx)
    /\ UNCHANGED << caller, hal, inputs, PACKAGE_VERSION, VERSION_RULES, VERSION_PARTS,
                    VERSION_MAJOR, VERSION_MINOR, VERSION_PATCH, EXCLUSIONS,
                    exclIdx, messages >>

\* lines 59-61: any other rule approves the version equal to it
ExactRule ==
    /\ pc = "rules"
    /\ LET RULE == VERSION_RULES[ruleIdx] IN
         /\ ~MatchesExclusion(RULE)
         /\ ~MatchesRange(RULE)
         /\ VERSION_APPROVED' =
               Approve(VERSION_APPROVED, ExactMatch(PACKAGE_VERSION, RULE))
    /\ ruleIdx' = ruleIdx + 1
    /\ pc' = PcAfter(VERSION_RULES, ruleIdx', EXCLUSIONS, exclIdx)
    /\ UNCHANGED << caller, hal, inputs, PACKAGE_VERSION, VERSION_RULES, VERSION_PARTS,
                    VERSION_MAJOR, VERSION_MINOR, VERSION_PATCH, EXCLUSIONS,
                    exclIdx, messages >>

\* lines 66-72: the candidate equals an excluded version: the exclusion error
ExcludedVersion ==
    /\ pc = "exclusions"
    /\ IsExcluded(PACKAGE_VERSION, EXCLUSIONS[exclIdx])
    /\ messages' = Append(messages,
           Message("FATAL_ERROR", "excluded", PACKAGE_VERSION,
                   VERSION_RULES_STR(VERSION_RULES)))
    /\ pc' = FatalError(PcAfter(VERSION_RULES, ruleIdx, EXCLUSIONS, exclIdx + 1))
    /\ UNCHANGED << caller, hal, inputs, locals >>

\* lines 65-73: the candidate differs from an excluded version: on to the next
NotExcluded ==
    /\ pc = "exclusions"
    /\ ~IsExcluded(PACKAGE_VERSION, EXCLUSIONS[exclIdx])
    /\ exclIdx' = exclIdx + 1
    /\ pc' = PcAfter(VERSION_RULES, ruleIdx, EXCLUSIONS, exclIdx')
    /\ UNCHANGED << caller, hal, inputs, PACKAGE_VERSION, VERSION_RULES, VERSION_PARTS,
                    VERSION_MAJOR, VERSION_MINOR, VERSION_PATCH,
                    VERSION_APPROVED, EXCLUSIONS, ruleIdx, messages >>

\* lines 76-82: no rule approved the candidate: the mismatch error
VersionMismatch ==
    /\ pc = "final"
    /\ ~VERSION_APPROVED
    /\ messages' = Append(messages,
           Message("FATAL_ERROR", "mismatch", PACKAGE_VERSION,
                   VERSION_RULES_STR(VERSION_RULES)))
    /\ pc' = FatalError("status")
    /\ UNCHANGED << caller, hal, inputs, locals >>

\* lines 84-87: past the final test: the status message
VersionApproved ==
    /\ \/ pc = "final" /\ VERSION_APPROVED
       \/ pc = "status"
    /\ messages' = Append(messages,
           Message("STATUS", "approved", ApprovedVersion, << >>))
    /\ pc' = "done"
    /\ UNCHANGED << caller, hal, inputs, locals >>

Next ==
    \/ MissingVersion
    \/ ParseVersion
    \/ ExclusionRule
    \/ RangeRule
    \/ ExactRule
    \/ ExcludedVersion
    \/ NotExcluded
    \/ VersionMismatch
    \/ VersionApproved

Spec == Init /\ [][Next]_vars

-----------------------------------------------------------------------------
(* The same call made again: with the calling scope the first call left,   *)
(* after a return, or in the next run of the configuration, after an error.*)

\* a macro(): the variables it sets are the caller's own
MacroScope(callers, functions) == functions

\* lines 5 and 88, function() ... endfunction(): the variables the call set
\* end with it (no PARENT_SCOPE, no CACHE), the calling scope is as it was
ScopeAfterReturn(callers, functions) == callers

\* one rule of each kind
SmallRules ==
    { [kind |-> "exact", v |-> << 1, 9, 1 >>],
      [kind |-> "range", min |-> << 1, 9, 1 >>, max |-> << 1, 9, 2 >>],
      [kind |-> "exclusion", v |-> << 1, 9, 2 >>],
      [kind |-> "malformed", text |-> << "a", "b", "c" >>] }

SmallRuleLists == SeqsUpTo(SmallRules, MaxRules)

InitTwice ==
    /\ candidate \in Candidates
    /\ ruleSet \in SmallRuleLists
    /\ COMPONENT_NAME \in ComponentNames
    /\ PACKAGE_NAME \in PackageNames
    /\ ARGN = RuleTexts(ruleSet)
    /\ CPM_PACKAGE_VERSION = CandidateText(candidate)
    /\ pc = "start"
    /\ callerScope \in CallerScopes
    /\ EntersWith(callerScope)
    /\ messages = << >>
    /\ calls = 1
    /\ other = NoCall
    /\ HalAtRest

\* the call has ended; it is made again with the same arguments
CallAgain ==
    /\ pc \in {"done", "aborted"}
    /\ calls < MaxCalls
    /\ calls' = calls + 1
    /\ callerScope' = ScopeAfterReturn(callerScope, FunctionScope)
    /\ PACKAGE_VERSION' = callerScope'.PACKAGE_VERSION
    /\ VERSION_RULES' = callerScope'.VERSION_RULES
    /\ VERSION_PARTS' = callerScope'.VERSION_PARTS
    /\ VERSION_MAJOR' = callerScope'.VERSION_MAJOR
    /\ VERSION_MINOR' = callerScope'.VERSION_MINOR
    /\ VERSION_PATCH' = callerScope'.VERSION_PATCH
    /\ VERSION_APPROVED' = callerScope'.VERSION_APPROVED
    /\ EXCLUSIONS' = callerScope'.EXCLUSIONS
    /\ ruleIdx' = 1
    /\ exclIdx' = 1
    /\ pc' = "start"
    /\ UNCHANGED << hal, inputs, messages, other >>

NextTwice == Next \/ CallAgain

SpecTwice == InitTwice /\ [][NextTwice]_vars

-----------------------------------------------------------------------------
(* Two calls, for two packages, their steps in any order.  Each call has   *)
(* the scope of its own function call; the diagnostic stream is shared.    *)

\* the running call, as it is set aside
Suspended ==
    [pc |-> pc, candidate |-> candidate, ruleSet |-> ruleSet,
     COMPONENT_NAME |-> COMPONENT_NAME, PACKAGE_NAME |-> PACKAGE_NAME,
     ARGN |-> ARGN, CPM_PACKAGE_VERSION |-> CPM_PACKAGE_VERSION,
     scope |-> FunctionScope, ruleIdx |-> ruleIdx, exclIdx |-> exclIdx]

\* one VERSION_APPROVED for all the calls
SharedApproval(own) == VERSION_APPROVED

\* line 38, set(VERSION_APPROVED FALSE) in the function: each call has a
\* variable of its own
OwnApproval(own) == own

\* the package of the second call
OtherPackageNames == { "nlohmann_json" }

PairCandidates ==
    { [kind |-> "version", parts |-> << 1, 9, 1 >>],
      [kind |-> "version", parts |-> << 1, 9, 2 >>],
      [kind |-> "version", parts |-> << 1, 9, 3 >>],
      [kind |-> "raw", text |-> << >>] }

OtherCandidates ==
    { [kind |-> "version", parts |-> << 1, 9, 1 >>],
      [kind |-> "version", parts |-> << 1, 9, 2 >>] }

OtherRuleLists ==
    { << r >> : r \in SmallRules }
    \cup { << [kind |-> "exclusion", v |-> << 1, 9, 2 >>],
              [kind |-> "range", min |-> << 1, 9, 1 >>, max |-> << 1, 9, 2 >>] >> }

InitPair ==
    /\ candidate \in PairCandidates
    /\ ruleSet \in SmallRuleLists
    /\ COMPONENT_NAME \in ComponentNames
    /\ PACKAGE_NAME \in PackageNames
    /\ ARGN = RuleTexts(ruleSet)
    /\ CPM_PACKAGE_VERSION = CandidateText(candidate)
    /\ pc = "start"
    /\ callerScope \in CallerScopes
    /\ EntersWith(callerScope)
    /\ messages = << >>
    /\ calls = 1
    /\ other \in { [pc |-> "start", candidate |-> c, ruleSet |-> rs,
                     COMPONENT_NAME |-> cn, PACKAGE_NAME |-> pn,
                     ARGN |-> RuleTexts(rs),
                     CPM_PACKAGE_VERSION |-> CandidateText(c),
                     scope |-> callerScope, ruleIdx |-> 1, exclIdx |-> 1] :
                        c \in OtherCandidates, rs \in OtherRuleLists,
                        cn \in ComponentNames, pn \in OtherPackageNames }
    /\ HalAtRest

\* the running call is set aside and the other call goes on; after a fatal
\* error nothing goes on
Switch ==
    /\ pc /= "aborted"
    /\ other.pc \notin {"none", "done", "aborted"}
    /\ other' = Suspended
    /\ pc' = other.pc
    /\ candidate' = other.candidate
    /\ ruleSet' = other.ruleSet
    /\ COMPONENT_NAME' = other.COMPONENT_NAME
    /\ PACKAGE_NAME' = other.PACKAGE_NAME
    /\ ARGN' = other.ARGN
    /\ CPM_PACKAGE_VERSION' = other.CPM_PACKAGE_VERSION
    /\ PACKAGE_VERSION' = other.scope.PACKAGE_VERSION
    /\ VERSION_RULES' = other.scope.VERSION_RULES
    /\ VERSION_PARTS' = other.scope.VERSION_PARTS
    /\ VERSION_MAJOR' = other.scope.VERSION_MAJOR
    /\ VERSION_MINOR' = other.scope.VERSION_MINOR
    /\ VERSION_PATCH' = other.scope.VERSION_PATCH
    /\ VERSION_APPROVED' = OwnApproval(other.scope.VERSION_APPROVED)
    /\ EXCLUSIONS' = other.scope.EXCLUSIONS
    /\ ruleIdx' = other.ruleIdx
    /\ exclIdx' = other.exclIdx
    /\ UNCHANGED << hal, messages, calls, callerScope >>

NextPair == Next \/ Switch

SpecPair == InitPair /\ [][NextPair]_vars

-----------------------------------------------------------------------------
(* One call whose rule list may hold "!A...B": an exclamation mark before   *)
(* what would be a range.                                                  *)

\* "!1.9.1...1.9.2"
ExcludedRanges ==
    { [kind |-> "excluded-range", min |-> << 1, 9, 1 >>, max |-> << 1, 9, 2 >>,
       text |-> << "!" >> \o VersionText(<< 1, 9, 1 >>) \o Dots3
                    \o VersionText(<< 1, 9, 2 >>)] }

OrderRuleLists == SeqsUpTo(SmallRules \cup ExcludedRanges, MaxRules)

InitOrder ==
    /\ candidate \in Candidates
    /\ ruleSet \in OrderRuleLists
    /\ COMPONENT_NAME \in ComponentNames
    /\ PACKAGE_NAME \in PackageNames
    /\ ARGN = RuleTexts(ruleSet)
    /\ CPM_PACKAGE_VERSION = CandidateText(candidate)
    /\ pc = "start"
    /\ callerScope = UnsetScope
    /\ EntersWith(callerScope)
    /\ messages = << >>
    /\ calls = 1
    /\ other = NoCall
    /\ HalAtRest

SpecOrder == InitOrder /\ [][Next]_vars

-----------------------------------------------------------------------------
(* The layered components: hal::spi::Spi, hal::crypto::Crypto, which owns   *)
(* a Spi, and upper_layer::osal::Osal, which owns a Crypto.  A std::string  *)
(* is a sequence of characters.                                            *)

\* "spi - SPI HAL Component\n      |-- fmt "
SpiInfoHead ==
    << "s", "p", "i", " ", "-", " ", "S", "P", "I", " ", "H", "A", "L", " ",
       "C", "o", "m", "p", "o", "n", "e", "n", "t", "\n", " ", " ", " ", " ",
       " ", " ", "|", "-", "-", " ", "f", "m", "t", " " >>

\* "\n      +-- nlohmann/json "
SpiInfoJson ==
    << "\n", " ", " ", " ", " ", " ", " ", "+", "-", "-", " ", "n", "l", "o",
       "h", "m", "a", "n", "n", "/", "j", "s", "o", "n", " " >>

\* "[spi] "
SpiMessageHead ==
    << "[", "s", "p", "i", "]", " " >>

\* "crypto - Cryptography HAL Component\n    +-- "
CryptoInfoHead ==
    << "c", "r", "y", "p", "t", "o", " ", "-", " ", "C", "r", "y", "p", "t",
       "o", "g", "r", "a", "p", "h", "y", " ", "H", "A", "L", " ", "C", "o",
       "m", "p", "o", "n", "e", "n", "t", "\n", " ", " ", " ", " ", "+", "-",
       "-", " " >>

\* "[crypto] Processed: "
CryptoProcessedHead ==
    << "[", "c", "r", "y", "p", "t", "o", "]", " ", "P", "r", "o", "c", "e",
       "s", "s", "e", "d", ":", " " >>

\* "osal - OS Abstraction Layer\n  |-- fmt "
OsalInfoHead ==
    << "o", "s", "a", "l", " ", "-", " ", "O", "S", " ", "A", "b", "s", "t",
       "r", "a", "c", "t", "i", "o", "n", " ", "L", "a", "y", "e", "r", "\n",
       " ", " ", "|", "-", "-", " ", "f", "m", "t", " " >>

\* "\n  +-- "
OsalInfoCrypto ==
    << "\n", " ", " ", "+", "-", "-", " " >>

\* "[osal] Final result: "
OsalResultHead ==
    << "[", "o", "s", "a", "l", "]", " ", "F", "i", "n", "a", "l", " ", "r",
       "e", "s", "u", "l", "t", ":", " " >>

\* int fmt_major = FMT_VERSION / 10000
FmtMajor(version) == version \div 10000

\* a minor that keeps the major in front of it
FmtMinorWithMajor(version) == version \div 100

\* int fmt_minor = (FMT_VERSION % 10000) / 100
FmtMinor(version) == (version % 10000) \div 100

\* int fmt_patch = FMT_VERSION % 100
FmtPatch(version) == version % 100

\* "{}.{}.{}" of three integers
Dotted(major, minor, patch) ==
    DecimalText(major) \o << "." >> \o DecimalText(minor) \o << "." >>
        \o DecimalText(patch)

\* Spi::get_info
Spi_get_info(fmt, json) ==
    SpiInfoHead \o Dotted(FmtMajor(fmt), FmtMinor(fmt), FmtPatch(fmt))
        \o SpiInfoJson \o Dotted(json[1], json[2], json[3])

\* Spi::format_message
Spi_format_message(msg) == SpiMessageHead \o msg

\* a Crypto that tells of itself only
Crypto_get_info_alone(fmt, json) == CryptoInfoHead

\* Crypto::get_info
Crypto_get_info(fmt, json) == CryptoInfoHead \o Spi_get_info(fmt, json)

\* a Crypto that does not go through its Spi
Crypto_process_without_spi(input) == CryptoProcessedHead \o input

\* Crypto::process_with_spi
Crypto_process_with_spi(input) ==
    LET formatted == Spi_format_message(input)
    IN CryptoProcessedHead \o formatted

\* Osal::get_info
Osal_get_info(fmt, json) ==
    OsalInfoHead \o Dotted(FmtMajor(fmt), FmtMinor(fmt), FmtPatch(fmt))
        \o OsalInfoCrypto \o Crypto_get_info(fmt, json)

\* an Osal that goes to the Spi directly
Osal_execute_on_spi(command) == OsalResultHead \o Spi_format_message(command)

\* Osal::execute
Osal_execute(command) ==
    LET processed == Crypto_process_with_spi(command)
    IN OsalResultHead \o processed

\* "[ProjectA] "
ProjectAMessageHead ==
    << "[", "P", "r", "o", "j", "e", "c", "t", "A", "]", " " >>

\* "[ProjectB] Processed: "
ProjectBProcessedHead ==
    << "[", "P", "r", "o", "j", "e", "c", "t", "B", "]", " ", "P", "r", "o",
       "c", "e", "s", "s", "e", "d", ":", " " >>

\* "[ProjectC] Final result: "
ProjectCResultHead ==
    << "[", "P", "r", "o", "j", "e", "c", "t", "C", "]", " ", "F", "i", "n",
       "a", "l", " ", "r", "e", "s", "u", "l", "t", ":", " " >>

\* ComponentA::format_message
ComponentA_format_message(msg) == ProjectAMessageHead \o msg

\* ComponentB::process_with_a
ComponentB_process_with_a(input) ==
    LET formatted == ComponentA_format_message(input)
    IN ProjectBProcessedHead \o formatted

\* a ComponentC that goes to the ComponentA directly
ComponentC_execute_on_a(command) ==
    ProjectCResultHead \o ComponentA_format_message(command)

\* ComponentC::execute
ComponentC_execute(command) ==
    LET processed == ComponentB_process_with_a(command)
    IN ProjectCResultHead \o processed

\* "Main Application"
ChainMain ==
    << "M", "a", "i", "n", " ", "A", "p", "p", "l", "i", "c", "a", "t", "i",
       "o", "n" >>

\* " +-> ProjectC (Top-level component)"
ChainProjectC ==
    << " ", "+", "-", ">", " ", "P", "r", "o", "j", "e", "c", "t", "C", " ",
       "(", "T", "o", "p", "-", "l", "e", "v", "e", "l", " ", "c", "o", "m",
       "p", "o", "n", "e", "n", "t", ")" >>

\* "      |-> fmt "
ChainFmtHead ==
    << " ", " ", " ", " ", " ", " ", "|", "-", ">", " ", "f", "m", "t", " " >>

\* " (formatting library)"
ChainFmtTail ==
    << " ", "(", "f", "o", "r", "m", "a", "t", "t", "i", "n", "g", " ", "l",
       "i", "b", "r", "a", "r", "y", ")" >>

\* "      +-> ProjectB (Middleware component)"
ChainProjectB ==
    << " ", " ", " ", " ", " ", " ", "+", "-", ">", " ", "P", "r", "o", "j",
       "e", "c", "t", "B", " ", "(", "M", "i", "d", "d", "l", "e", "w", "a",
       "r", "e", " ", "c", "o", "m", "p", "o", "n", "e", "n", "t", ")" >>

\* "           +-> ProjectA (Base component)"
ChainProjectA ==
    << " ", " ", " ", " ", " ", " ", " ", " ", " ", " ", " ", "+", "-", ">",
       " ", "P", "r", "o", "j", "e", "c", "t", "A", " ", "(", "B", "a", "s",
       "e", " ", "c", "o", "m", "p", "o", "n", "e", "n", "t", ")" >>

\* "                |-> nlohmann/json "
ChainJsonHead ==
    << " ", " ", " ", " ", " ", " ", " ", " ", " ", " ", " ", " ", " ", " ",
       " ", " ", "|", "-", ">", " ", "n", "l", "o", "h", "m", "a", "n", "n",
       "/", "j", "s", "o", "n", " " >>

\* " (JSON library)"
ChainJsonTail ==
    << " ", "(", "J", "S", "O", "N", " ", "l", "i", "b", "r", "a", "r", "y",
       ")" >>

\* ComponentC::get_full_dependency_chain
ComponentC_get_full_dependency_chain(fmt, json) ==
    << ChainMain,
       ChainProjectC,
       ChainFmtHead \o Dotted(FmtMajor(fmt), FmtMinor(fmt), FmtPatch(fmt))
           \o ChainFmtTail,
       ChainProjectB,
       ChainProjectA,
       ChainJsonHead \o Dotted(json[1], json[2], json[3]) \o ChainJsonTail >>

\* the longest command or message given to a component
MaxCommandLen == 2

\* the characters of the commands
CommandChars == { "s", "]", " ", "{" }

Commands == SeqsUpTo(CommandChars, MaxCommandLen)

\* the components of the fmt versions: the least and the greatest minor and
\* patch that FMT_VERSION can hold among them
FmtMajors == { 9, 12 }

FmtMinors == { 1, 99 }

FmtPatches == { 0, 99 }

\* FMT_VERSION of these versions: 120100 is fmt 12.1.0
FmtVersions ==
    { 10000 * a + 100 * b + c :
          a \in FmtMajors, b \in FmtMinors, c \in FmtPatches }

\* nlohmann/json 3.11.3 and 3.12.0
JsonVersions == { << 3, 11, 3 >>, << 3, 12, 0 >> }

\* no call of the validator is looked at
ValidatorAtRest ==
    /\ candidate = [kind |-> "raw", text |-> << >>]
    /\ ruleSet = << >>
    /\ COMPONENT_NAME = "spi"
    /\ PACKAGE_NAME = "fmt"
    /\ ARGN = << >>
    /\ CPM_PACKAGE_VERSION = << >>
    /\ pc = "idle"
    /\ callerScope = UnsetScope
    /\ EntersWith(callerScope)
    /\ messages = << >>
    /\ calls = 0
    /\ other = NoCall

InitHal ==
    /\ ValidatorAtRest
    /\ FMT_VERSION \in FmtVersions
    /\ NLOHMANN_JSON_VERSION \in JsonVersions
    /\ called = "none"
    /\ argument = << >>
    /\ returned = << >>

validator == << inputs, pc, locals, messages, caller >>

SpiGetInfo ==
    /\ called' = "Spi::get_info"
    /\ argument' = << >>
    /\ returned' = Spi_get_info(FMT_VERSION, NLOHMANN_JSON_VERSION)
    /\ UNCHANGED << validator, FMT_VERSION, NLOHMANN_JSON_VERSION >>

SpiFormatMessage ==
    /\ \E msg \in Commands :
           /\ argument' = msg
           /\ returned' = Spi_format_message(msg)
    /\ called' = "Spi::format_message"
    /\ UNCHANGED << validator, FMT_VERSION, NLOHMANN_JSON_VERSION >>

CryptoGetInfo ==
    /\ called' = "Crypto::get_info"
    /\ argument' = << >>
    /\ returned' = Crypto_get_info(FMT_VERSION, NLOHMANN_JSON_VERSION)
    /\ UNCHANGED << validator, FMT_VERSION, NLOHMANN_JSON_VERSION >>

CryptoProcessWithSpi ==
    /\ \E input \in Commands :
           /\ argument' = input
           /\ returned' = Crypto_process_with_spi(input)
    /\ called' = "Crypto::process_with_spi"
    /\ UNCHANGED << validator, FMT_VERSION, NLOHMANN_JSON_VERSION >>

OsalGetInfo ==
    /\ called' = "Osal::get_info"
    /\ argument' = << >>
    /\ returned' = Osal_get_info(FMT_VERSION, NLOHMANN_JSON_VERSION)
    /\ UNCHANGED << validator, FMT_VERSION, NLOHMANN_JSON_VERSION >>

OsalExecute ==
    /\ \E command \in Commands :
           /\ argument' = command
           /\ returned' = Osal_execute(command)
    /\ called' = "Osal::execute"
    /\ UNCHANGED << validator, FMT_VERSION, NLOHMANN_JSON_VERSION >>

ComponentAFormatMessage ==
    /\ \E msg \in Commands :
           /\ argument' = msg
           /\ returned' = ComponentA_format_message(msg)
    /\ called' = "ComponentA::format_message"
    /\ UNCHANGED << validator, FMT_VERSION, NLOHMANN_JSON_VERSION >>

ComponentBProcessWithA ==
    /\ \E input \in Commands :
           /\ argument' = input
           /\ returned' = ComponentB_process_with_a(input)
    /\ called' = "ComponentB::process_with_a"
    /\ UNCHANGED << validator, FMT_VERSION, NLOHMANN_JSON_VERSION >>

ComponentCExecute ==
    /\ \E command \in Commands :
           /\ argument' = command
           /\ returned' = ComponentC_execute(command)
    /\ called' = "ComponentC::execute"
    /\ UNCHANGED << validator, FMT_VERSION, NLOHMANN_JSON_VERSION >>

ComponentCGetFullDependencyChain ==
    /\ called' = "ComponentC::get_full_dependency_chain"
    /\ argument' = << >>
    /\ returned' = ComponentC_get_full_dependency_chain(FMT_VERSION,
                                                        NLOHMANN_JSON_VERSION)
    /\ UNCHANGED << validator, FMT_VERSION, NLOHMANN_JSON_VERSION >>

NextHal ==
    \/ SpiGetInfo
    \/ SpiFormatMessage
    \/ CryptoGetInfo
    \/ CryptoProcessWithSpi
    \/ OsalGetInfo
    \/ OsalExecute
    \/ ComponentAFormatMessage
    \/ ComponentBProcessWithA
    \/ ComponentCExecute
    \/ ComponentCGetFullDependencyChain

SpecHal == InitHal /\ [][NextHal]_vars

-----------------------------------------------------------------------------
(* The call as a function of its inputs: the scan of lines 42-62, the      *)
(* exclusion check of lines 65-73 and the final test of lines 76-87.       *)

RECURSIVE ScanRules(_, _, _, _)
ScanRules(version, rules, approved, exclusions) ==
    IF rules = << >> THEN [approved |-> approved, exclusions |-> exclusions]
    ELSE LET RULE == Head(rules) IN
         IF MatchesExclusion(RULE)
         THEN ScanRules(version, Tail(rules), approved,
                        Append(exclusions, ExclusionMatch1(RULE)))
         ELSE IF MatchesRange(RULE)
         THEN ScanRules(version, Tail(rules),
                        Approve(approved,
                                InRange(version, RangeMatch1(RULE), RangeMatch2(RULE))),
                        exclusions)
         ELSE ScanRules(version, Tail(rules),
                        Approve(approved, ExactMatch(version, RULE)), exclusions)

\* "missing", "excluded", "mismatch" or "approved": the message the call ends with
CallOutcome(version, argn) ==
    IF IsOff(version) THEN "missing"
    ELSE LET scan == ScanRules(version, DropEmpty(argn), InitialApproval, << >>)
         IN IF \E i \in 1..Len(scan.exclusions) :
                   IsExcluded(version, scan.exclusions[i])
            THEN "excluded"
            ELSE IF ~scan.approved THEN "mismatch"
            ELSE "approved"

-----------------------------------------------------------------------------
(* What the specification says of versions and rules, in numbers.          *)

\* a version of the data model: one to three components
IsVersion(c) == c.kind = "version" /\ Len(c.parts) \in 1..3

\* (major, minor, patch), a missing component read as 0
Triple(parts) == [i \in 1..3 |-> IF i <= Len(parts) THEN parts[i] ELSE 0]

TripleLeq(a, b) ==
    \/ a[1] < b[1]
    \/ a[1] = b[1] /\ a[2] < b[2]
    \/ a[1] = b[1] /\ a[2] = b[2] /\ a[3] <= b[3]

\* -1, 0 or 1: the order of two triples
TripleCompare(a, b) == IF a = b THEN 0 ELSE IF TripleLeq(a, b) THEN -1 ELSE 1

\* an exact rule equal to t, or a range rule with min <= t <= max
RuleAccepts(rule, t) ==
    \/ rule.kind = "exact" /\ Triple(rule.v) = t
    \/ /\ rule.kind = "range"
       /\ TripleLeq(Triple(rule.min), t)
       /\ TripleLeq(t, Triple(rule.max))

RuleExcludes(rule, t) == rule.kind = "exclusion" /\ Triple(rule.v) = t

SomeRuleAccepts(rules, t) == \E i \in 1..Len(rules) : RuleAccepts(rules[i], t)

SomeRuleExcludes(rules, t) == \E i \in 1..Len(rules) : RuleExcludes(rules[i], t)

WellFormedRules(rules) == \A i \in 1..Len(rules) : rules[i].kind /= "malformed"

OnlyKind(rules, kind) == \A i \in 1..Len(rules) : rules[i].kind = kind

Finished == pc \in {"done", "aborted"}

\* the call ended with the status message and raised no fatal error
Accepted ==
    /\ pc = "done"
    /\ Len(messages) = 1
    /\ messages[1].level = "STATUS"

\* the call ended with a fatal error
Rejected ==
    /\ pc = "aborted"
    /\ Len(messages) = 1
    /\ messages[1].level = "FATAL_ERROR"

\* the call ended with the fatal error named id
FailedWith(id) == Rejected /\ messages[1].id = id

\* the message the call ended with
Outcome == messages[Len(messages)].id

-----------------------------------------------------------------------------
(* The claims.                                                             *)

\* C1: for every non-empty candidate version and every rule list, the call
\* accepts if and only if some exact or range rule matches the candidate and
\* no exclusion rule equals it.
C1_AcceptsIffMatchedAndNotExcluded ==
    (Finished /\ IsVersion(candidate) /\ WellFormedRules(ruleSet))
        => (Accepted <=> /\ SomeRuleAccepts(ruleSet, Triple(candidate.parts))
                         /\ ~SomeRuleExcludes(ruleSet, Triple(candidate.parts)))

\* C2: a candidate equal to the version of an exclusion rule is rejected,
\* also when an exact or range rule of the list matches it.
C2_ExclusionOverridesAcceptance ==
    (Finished /\ IsVersion(candidate)
              /\ SomeRuleExcludes(ruleSet, Triple(candidate.parts)))
        => Rejected

\* C2 happens: a candidate inside a range of the list, approved by the scan,
\* and excluded by a later rule of the same list, is rejected.
C2_Witness ==
    /\ Rejected
    /\ VERSION_APPROVED
    /\ IsVersion(candidate)
    /\ Len(ruleSet) = 2
    /\ ruleSet[1].kind = "range"
    /\ RuleAccepts(ruleSet[1], Triple(candidate.parts))
    /\ RuleExcludes(ruleSet[2], Triple(candidate.parts))

\* C3: with a rule list of exact rules "a.b.c" only, the call accepts a
\* candidate "d.e.f" if and only if (d,e,f) equals the (a,b,c) of some rule,
\* component by component.
C3_ExactRulesAcceptListedOnly ==
    (Finished /\ candidate.kind = "version" /\ Len(candidate.parts) = 3
              /\ OnlyKind(ruleSet, "exact")
              /\ \A i \in 1..Len(ruleSet) : Len(ruleSet[i].v) = 3)
        => (Accepted <=>
                \E i \in 1..Len(ruleSet) :
                    \A k \in 1..3 : ruleSet[i].v[k] = candidate.parts[k])

\* C3 happens: two different exact rules, the candidate is the second one.
C3_Witness ==
    /\ Accepted
    /\ candidate.kind = "version" /\ Len(candidate.parts) = 3
    /\ Len(ruleSet) = 2
    /\ OnlyKind(ruleSet, "exact")
    /\ Len(ruleSet[1].v) = 3
    /\ ruleSet[1].v /= candidate.parts
    /\ ruleSet[2].v = candidate.parts

\* C4: with a rule list of range rules only, the call accepts a candidate v
\* if and only if min <= v <= max for some rule, both ends included: v = min
\* and v = max are accepted, one patch below min or above max is not.
C4_RangeIsInclusive ==
    (Finished /\ candidate.kind = "version" /\ Len(candidate.parts) = 3
              /\ OnlyKind(ruleSet, "range"))
        => (Accepted <=>
                \E i \in 1..Len(ruleSet) :
                    /\ TripleLeq(ruleSet[i].min, candidate.parts)
                    /\ TripleLeq(candidate.parts, ruleSet[i].max))

\* C4 happens: a single range with min < max accepts the candidate equal to max.
C4_Witness ==
    /\ Accepted
    /\ candidate.kind = "version"
    /\ Len(ruleSet) = 1
    /\ ruleSet[1].kind = "range"
    /\ ruleSet[1].min /= ruleSet[1].max
    /\ candidate.parts = ruleSet[1].max

\* the versions a rule is written with
VersionsOf(rule) ==
    CASE rule.kind = "range"     -> {rule.min, rule.max}
      [] rule.kind = "malformed" -> {}
      [] OTHER                   -> {rule.v}

\* C5: versions compare as integers, component by component in the order
\* major, minor, patch, and never as text: the comparison of the candidate
\* with every version of a rule has the sign of the comparison of the
\* triples, and a candidate of minor 10 is rejected by a range inside minor 9.
C5_ComparesAsIntegers ==
    /\ (Finished /\ IsVersion(candidate))
           => \A i \in 1..Len(ruleSet) : \A w \in VersionsOf(ruleSet[i]) :
                  VersionCompare(PACKAGE_VERSION, VersionText(w))
                      = TripleCompare(Triple(candidate.parts), Triple(w))
    /\ (Finished /\ candidate.kind = "version" /\ Len(candidate.parts) = 3
                 /\ candidate.parts[2] = 10
                 /\ OnlyKind(ruleSet, "range")
                 /\ \A i \in 1..Len(ruleSet) :
                        /\ ruleSet[i].min[1] = candidate.parts[1]
                        /\ ruleSet[i].min[2] = 9
                        /\ ruleSet[i].max[1] = candidate.parts[1]
                        /\ ruleSet[i].max[2] = 9)
           => FailedWith("mismatch")

\* C5 happens: candidate 1.10.p is rejected by a range a.9.x...a.9.y, x < y.
C5_Witness ==
    /\ FailedWith("mismatch")
    /\ candidate.kind = "version" /\ Len(candidate.parts) = 3
    /\ candidate.parts[2] = 10
    /\ Len(ruleSet) = 1
    /\ ruleSet[1].kind = "range"
    /\ ruleSet[1].min[1] = candidate.parts[1] /\ ruleSet[1].min[2] = 9
    /\ ruleSet[1].max[1] = candidate.parts[1] /\ ruleSet[1].max[2] = 9
    /\ ruleSet[1].min[3] < ruleSet[1].max[3]

\* C6: a candidate that equals no excluded version and matches no exact or
\* range rule makes the call fail with the version-mismatch error.
C6_UnmatchedFailsWithMismatch ==
    (Finished /\ IsVersion(candidate) /\ WellFormedRules(ruleSet)
              /\ ~SomeRuleAccepts(ruleSet, Triple(candidate.parts))
              /\ ~SomeRuleExcludes(ruleSet, Triple(candidate.parts)))
        => FailedWith("mismatch")

\* C7: an empty or unparsable candidate makes the call fail with the
\* missing-version error, whatever the rule list is; it is never accepted.
C7_UnparsableCandidateIsMissing ==
    (Finished /\ candidate.kind = "raw") => FailedWith("missing")

\* C8: a rule string that is no exact version, range or exclusion makes the
\* call fail with a fatal error.
C8_MalformedRuleIsFatal ==
    (Finished /\ ~WellFormedRules(ruleSet)) => Rejected

\* C9: a rule list with no exact or range rule, empty or made of exclusions
\* only, accepts no candidate: the call ends in a fatal error.
C9_NoAcceptanceRuleNeverAccepts ==
    (Finished /\ OnlyKind(ruleSet, "exclusion")) => Rejected

\* C9 happens: two exclusions, neither equal to the candidate version.
C9_Witness ==
    /\ FailedWith("mismatch")
    /\ IsVersion(candidate)
    /\ Len(ruleSet) = 2
    /\ OnlyKind(ruleSet, "exclusion")
    /\ ~SomeRuleExcludes(ruleSet, Triple(candidate.parts))

\* the rule strings in another order
Permuted(list, p) == [i \in 1..Len(list) |-> list[p[i]]]

Permutations(n) ==
    { p \in [1..n -> 1..n] : \A i \in 1..n : \A j \in 1..n : p[i] = p[j] => i = j }

\* C10: the outcome of a call (accept, exclusion error, mismatch error) is
\* the outcome of the call on every permutation of its rule strings.
C10_OrderOfRulesIsIrrelevant ==
    Finished =>
        \A p \in Permutations(Len(ARGN)) :
            CallOutcome(CPM_PACKAGE_VERSION, Permuted(ARGN, p)) = Outcome

\* C10 happens: a range rule after an exclusion rule it contains, the
\* candidate excluded.
C10_Witness ==
    /\ FailedWith("excluded")
    /\ Len(ruleSet) = 2
    /\ ruleSet[1].kind = "exclusion"
    /\ ruleSet[2].kind = "range"
    /\ IsVersion(candidate)
    /\ RuleAccepts(ruleSet[2], Triple(candidate.parts))

\* C12: a missing trailing component counts as 0, in the candidate and in
\* the rules alike: the candidate and every exact rule compare as their
\* triples padded with 0, so that candidate "a.b" is accepted by the exact
\* rule "a.b.0" and candidate "a.b.0" by the exact rule "a.b".
C12_MissingComponentsCountAsZero ==
    /\ (Finished /\ IsVersion(candidate) /\ OnlyKind(ruleSet, "exact"))
           => \A i \in 1..Len(ruleSet) :
                  VERSION_EQUAL(PACKAGE_VERSION, VersionText(ruleSet[i].v))
                      <=> Triple(candidate.parts) = Triple(ruleSet[i].v)
    /\ (Finished /\ candidate.kind = "version"
                 /\ Len(candidate.parts) \in 2..3
                 /\ OnlyKind(ruleSet, "exact"))
           => (Accepted <=>
                   \E i \in 1..Len(ruleSet) :
                       Triple(ruleSet[i].v) = Triple(candidate.parts))

\* C12 happens: candidate "a.b" accepted by the single exact rule "a.b.0".
C12_Witness ==
    /\ Accepted
    /\ candidate.kind = "version" /\ Len(candidate.parts) = 2
    /\ Len(ruleSet) = 1
    /\ ruleSet[1].kind = "exact"
    /\ ruleSet[1].v = candidate.parts \o << 0 >>

\* C12 happens the other way: candidate "a.b.0" accepted by the rule "a.b".
C12_WitnessShortRule ==
    /\ Accepted
    /\ candidate.kind = "version" /\ Len(candidate.parts) = 3
    /\ Len(ruleSet) = 1
    /\ ruleSet[1].kind = "exact"
    /\ candidate.parts = ruleSet[1].v \o << 0 >>

\* C13: every failure is terminal: a fatal error is the last message of the
\* stream and the call has stopped with it, so that no status message follows
\* an error and a call emits at most one error; and no step is taken once the
\* call has stopped on an error.
C13_FailureIsTerminal ==
    /\ [](\A i \in 1..Len(messages) :
             messages[i].level = "FATAL_ERROR"
                 => i = Len(messages) /\ pc = "aborted")
    /\ [][pc /= "aborted"]_vars

\* C13 happens: the exclusion error stops a call with a further exclusion
\* still to visit and the final test still to make.
C13_Witness ==
    /\ FailedWith("excluded")
    /\ exclIdx < Len(EXCLUSIONS)

\* the texts one after the other, ", " between two of them
RECURSIVE CommaSeparated(_)
CommaSeparated(texts) ==
    IF texts = << >> THEN << >>
    ELSE IF Len(texts) = 1 THEN texts[1]
    ELSE texts[1] \o << ",", " " >> \o CommaSeparated(Tail(texts))

\* C14: the exclusion error and the mismatch error echo the complete rule
\* list, every rule string of the caller, exclusions included, in the
\* caller's order, with the component, the package name and the version of
\* the candidate as it was resolved.
C14_ErrorEchoesRuleList ==
    (FailedWith("excluded") \/ FailedWith("mismatch"))
        => /\ messages[1].rules = CommaSeparated(RuleTexts(ruleSet))
           /\ messages[1].version = CandidateText(candidate)
           /\ messages[1].package = PACKAGE_NAME
           /\ messages[1].component = COMPONENT_NAME

\* C14 happens: the mismatch error of a call with an exclusion rule before a
\* range rule, neither of them about the candidate.
C14_Witness ==
    /\ FailedWith("mismatch")
    /\ Len(ruleSet) = 2
    /\ ruleSet[1].kind = "exclusion"
    /\ ruleSet[2].kind = "range"
    /\ Len(messages[1].rules) > Len(RuleText(ruleSet[2]))

\* the status messages of the stream
ApprovedMessages ==
    { i \in 1..Len(messages) :
          messages[i].level = "STATUS" /\ messages[i].id = "approved" }

\* C15: the success diagnostic, which names the package and the approved
\* version, is emitted exactly when the call accepts: a call that has ended
\* emitted it once if a rule approved the candidate and no exclusion equals
\* it, and not at all if it ended in an error; the version it names is the
\* version of the candidate that was checked.
C15_SuccessDiagnosticIffAccepted ==
    Finished =>
        /\ ApprovedMessages /= {} <=> pc = "done"
        /\ ApprovedMessages /= {} <=> CallOutcome(CPM_PACKAGE_VERSION, ARGN) = "approved"
        /\ Cardinality(ApprovedMessages) <= 1
        /\ \A i \in ApprovedMessages :
               /\ messages[i].version = CandidateText(candidate)
               /\ messages[i].package = PACKAGE_NAME
               /\ VERSION_APPROVED
               /\ \A e \in 1..Len(EXCLUSIONS) :
                      ~VERSION_EQUAL(PACKAGE_VERSION, EXCLUSIONS[e])

\* C15 happens: a candidate of two components, approved by the second rule
\* of a list whose first rule is an exclusion, is named as it was written.
C15_Witness ==
    /\ Accepted
    /\ candidate.kind = "version" /\ Len(candidate.parts) = 2
    /\ Len(ruleSet) = 2
    /\ ruleSet[1].kind = "exclusion"
    /\ messages[1].version = VersionText(candidate.parts)

\* C17, as the specification states it: whenever a call fails with the
\* exclusion error, the candidate matches at least one acceptance rule of
\* the list.
C17_ExcludedImpliesOtherwiseAccepted ==
    (FailedWith("excluded") /\ IsVersion(candidate))
        => SomeRuleAccepts(ruleSet, Triple(candidate.parts))

\* C17, amended: whenever a call fails with the exclusion error, the
\* candidate equals the version of an exclusion rule of the list, whether or
\* not an acceptance rule matches it.
C17_ExcludedImpliesExclusionRule ==
    (FailedWith("excluded") /\ IsVersion(candidate))
        => SomeRuleExcludes(ruleSet, Triple(candidate.parts))

\* C17 happens: the exclusion error of a call none of whose rules accepts
\* the candidate, next to a second exclusion that does not name it.
C17_Witness ==
    /\ FailedWith("excluded")
    /\ IsVersion(candidate)
    /\ ~VERSION_APPROVED
    /\ Len(ruleSet) = 2
    /\ ~SomeRuleAccepts(ruleSet, Triple(candidate.parts))
    /\ ~RuleExcludes(ruleSet[1], Triple(candidate.parts))

\* C11: a call made again with the same component, package, candidate and
\* rule list has the same outcome and the same diagnostic text: every call
\* that has ended emitted one message, equal to the message of the first
\* call; and nothing the call writes reaches the second call: the calling
\* scope is never changed.
C11_SameCallSameOutcome ==
    /\ [](pc \in {"done", "aborted"}
             => /\ Len(messages) = calls
                /\ \A k \in 1..calls : messages[k] = messages[1])
    /\ [][callerScope' = callerScope]_vars

\* C11 happens: the second call ends with the exclusion error as the first
\* did, from a calling scope that uses the names of the function itself.
C11_Witness ==
    /\ calls = 2
    /\ pc = "aborted"
    /\ Len(messages) = 2
    /\ messages[2].id = "excluded"
    /\ callerScope = BusyScope
    /\ callerScope.EXCLUSIONS /= EXCLUSIONS

\* the message a call emits when it runs alone
ExpectedMessage(component, package, version, argn) ==
    LET outcome == CallOutcome(version, argn) IN
    [level |-> IF outcome = "approved" THEN "STATUS" ELSE "FATAL_ERROR",
     id |-> outcome, component |-> component, package |-> package,
     version |-> IF outcome = "missing" THEN << >> ELSE version,
     rules |-> IF outcome \in {"excluded", "mismatch"}
               THEN CommaSeparated(argn) ELSE << >>]

\* the messages about a package
MessagesOf(package) ==
    { i \in 1..Len(messages) : messages[i].package = package }

\* C16: a call reads its own arguments and resolved version only and writes
\* to the diagnostic stream only: of two calls for different packages whose
\* steps are taken in any order, from any calling scope, each call that ends
\* has emitted the one message it emits when it runs alone, and the calling
\* scope is never changed.
C16_CallsDoNotInterfere ==
    /\ [](/\ pc \in {"done", "aborted"}
             => /\ Cardinality(MessagesOf(PACKAGE_NAME)) = 1
                /\ \A i \in MessagesOf(PACKAGE_NAME) :
                       messages[i] = ExpectedMessage(COMPONENT_NAME, PACKAGE_NAME,
                                                     CPM_PACKAGE_VERSION, ARGN)
          /\ other.pc \in {"done", "aborted"}
             => /\ Cardinality(MessagesOf(other.PACKAGE_NAME)) = 1
                /\ \A i \in MessagesOf(other.PACKAGE_NAME) :
                       messages[i] = ExpectedMessage(other.COMPONENT_NAME,
                                                     other.PACKAGE_NAME,
                                                     other.CPM_PACKAGE_VERSION,
                                                     other.ARGN))
    /\ [][callerScope' = callerScope]_vars

\* C16 happens: a call ends approved although the other call, set aside in
\* the middle of its checks, holds an exclusion of that very version.
C16_Witness ==
    /\ pc = "done"
    /\ other.pc = "exclusions"
    /\ Len(other.scope.EXCLUSIONS) = 1
    /\ VERSION_EQUAL(PACKAGE_VERSION, other.scope.EXCLUSIONS[1])
    /\ Len(VERSION_RULES) = 2

\* the text occurs in the string (std::string::find)
Contains(string, text) ==
    \E i \in 0..(Len(string) - Len(text)) :
        SubSeq(string, i + 1, i + Len(text)) = text

\* the string ends with the text
EndsWith(string, text) ==
    /\ Len(text) <= Len(string)
    /\ SubSeq(string, Len(string) - Len(text) + 1, Len(string)) = text

\* "[osal] Final result: [crypto] Processed: [spi] "
ExecutePrefix ==
    << "[", "o", "s", "a", "l", "]", " ", "F", "i", "n", "a", "l", " ", "r",
       "e", "s", "u", "l", "t", ":", " ", "[", "c", "r", "y", "p", "t", "o",
       "]", " ", "P", "r", "o", "c", "e", "s", "s", "e", "d", ":", " ", "[",
       "s", "p", "i", "]", " " >>

\* C18: for every command, the empty one included, Osal::execute(command)
\* returns exactly "[osal] Final result: [crypto] Processed: [spi] " followed
\* by the command.
C18_ExecuteWrapsCommand ==
    called = "Osal::execute" => returned = ExecutePrefix \o argument

\* C18 happens: Osal::execute has been called with the empty command.
C18_Witness ==
    /\ called = "Osal::execute"
    /\ argument = << >>
    /\ returned /= << >>

\* C19: Spi::format_message(m) is "[spi] " followed by m, and
\* Crypto::process_with_spi(i) is "[crypto] Processed: " followed by
\* Spi::format_message(i); both are non-empty and contain the name of their
\* component and their input, and the result of Crypto contains "spi".
C19_MessagesAreWrapped ==
    /\ called = "Spi::format_message"
           => /\ returned = << "[", "s", "p", "i", "]", " " >> \o argument
              /\ returned /= << >>
              /\ Contains(returned, << "s", "p", "i" >>)
              /\ Contains(returned, argument)
    /\ called = "Crypto::process_with_spi"
           => /\ returned = CryptoProcessedHead
                                \o << "[", "s", "p", "i", "]", " " >> \o argument
              /\ returned /= << >>
              /\ Contains(returned, << "c", "r", "y", "p", "t", "o" >>)
              /\ Contains(returned, << "s", "p", "i" >>)
              /\ Contains(returned, argument)

\* C19 happens: Crypto::process_with_spi has been called with an input of
\* two characters.
C19_Witness ==
    /\ called = "Crypto::process_with_spi"
    /\ Len(argument) = 2
    /\ Len(returned) > Len(argument)

\* C20: get_info() of each layer is non-empty, contains the name of its
\* component and embeds get_info() of the layer below unchanged:
\* Osal::get_info() contains "osal" and ends with Crypto::get_info(), which
\* contains "crypto" and ends with Spi::get_info(), which contains "spi".
C20_InfoEmbedsLowerLayer ==
    /\ called = "Spi::get_info"
           => /\ returned /= << >>
              /\ Contains(returned, << "s", "p", "i" >>)
    /\ called = "Crypto::get_info"
           => /\ returned /= << >>
              /\ Contains(returned, << "c", "r", "y", "p", "t", "o" >>)
              /\ EndsWith(returned,
                          Spi_get_info(FMT_VERSION, NLOHMANN_JSON_VERSION))
              /\ Len(returned)
                     > Len(Spi_get_info(FMT_VERSION, NLOHMANN_JSON_VERSION))
    /\ called = "Osal::get_info"
           => /\ returned /= << >>
              /\ Contains(returned, << "o", "s", "a", "l" >>)
              /\ EndsWith(returned,
                          Crypto_get_info(FMT_VERSION, NLOHMANN_JSON_VERSION))
              /\ \E head \in 1..Len(returned) :
                     /\ Contains(SubSeq(returned, head, Len(returned)),
                                 << "c", "r", "y", "p", "t", "o" >>)
                     /\ EndsWith(SubSeq(returned, head, Len(returned)),
                                 Spi_get_info(FMT_VERSION, NLOHMANN_JSON_VERSION))
                     /\ Len(returned) - head + 1
                            > Len(Spi_get_info(FMT_VERSION, NLOHMANN_JSON_VERSION))

\* C20 happens: Osal::get_info has been called in a build with a fmt of a
\* two-digit major version.
C20_Witness ==
    /\ called = "Osal::get_info"
    /\ FMT_VERSION >= 100000
    /\ Len(returned) > Len(OsalInfoHead)

\* the rules that begin with "!", each without its "!"
BangRests(rules) ==
    LET bang == SelectSeq(rules, LAMBDA r : r.kind \in {"exclusion", "excluded-range"})
    IN [i \in 1..Len(bang) |->
            IF bang[i].kind = "exclusion" THEN VersionText(bang[i].v)
            ELSE VersionText(bang[i].min) \o Dots3 \o VersionText(bang[i].max)]

\* C21: rule strings are classified in a fixed order.  A rule that begins
\* with "!" is an exclusion, the rest of the string its version, also when
\* the rest reads "A...B", and it does not approve; a rule without "!" that
\* reads "A...B" approves as a range; any other rule approves as an exact
\* version.  Once the scan is over, the exclusions are the rests of the "!"
\* rules in their order, and the candidate is approved exactly if a range or
\* exact rule without "!" matches it.
C21_ClassificationOrder ==
    (pc \in {"exclusions", "final", "done"} \/ FailedWith("excluded")
                                            \/ FailedWith("mismatch"))
        => /\ EXCLUSIONS = BangRests(ruleSet)
           /\ (IsVersion(candidate) /\ WellFormedRules(ruleSet))
                  => (VERSION_APPROVED
                         <=> SomeRuleAccepts(ruleSet, Triple(candidate.parts)))

\* C21 happens: the single rule "!A...B" and a candidate above A and not above
\* B, which the range "A...B" would approve: the call ends with the mismatch
\* error.
C21_Witness ==
    /\ FailedWith("mismatch")
    /\ IsVersion(candidate)
    /\ Len(ruleSet) = 1
    /\ ruleSet[1].kind = "excluded-range"
    /\ Triple(candidate.parts) /= Triple(ruleSet[1].min)
    /\ TripleLeq(Triple(ruleSet[1].min), Triple(candidate.parts))
    /\ TripleLeq(Triple(candidate.parts), Triple(ruleSet[1].max))

ComponentCExecutePrefix ==
    << "[", "P", "r", "o", "j", "e", "c", "t", "C", "]", " ", "F", "i", "n",
       "a", "l", " ", "r", "e", "s", "u", "l", "t", ":", " ", "[", "P", "r",
       "o", "j", "e", "c", "t", "B", "]", " ", "P", "r", "o", "c", "e", "s",
       "s", "e", "d", ":", " ", "[", "P", "r", "o", "j", "e", "c", "t", "A",
       "]", " " >>

\* C23: for every command, ComponentC::execute(command) returns exactly
\* "[ProjectC] Final result: [ProjectB] Processed: [ProjectA] " followed by
\* the command: each layer prepends its own tag to the unchanged result of
\* the layer below.
C23_ComponentCExecuteWrapsCommand ==
    /\ called = "ComponentC::execute"
           => returned = ComponentCExecutePrefix \o argument
    /\ called = "ComponentB::process_with_a"
           => returned = SubSeq(ComponentCExecutePrefix,
                                Len(ProjectCResultHead) + 1,
                                Len(ComponentCExecutePrefix)) \o argument
    /\ called = "ComponentA::format_message"
           => returned = << "[", "P", "r", "o", "j", "e", "c", "t", "A", "]",
                            " " >> \o argument

\* C23 happens: ComponentC::execute has been called with a command of two
\* characters, a brace among them.
C23_Witness ==
    /\ called = "ComponentC::execute"
    /\ Len(argument) = 2
    /\ argument[1] = "{"
    /\ Len(returned) = Len(ComponentCExecutePrefix) + 2

\* the greatest major version the decoding is checked for
MaxFmtMajor == 12

\* "fmt a.b.c" followed by the text that comes next
FmtLine(a, b, c, next) ==
    << "f", "m", "t", " " >> \o VersionText(<< a, b, c >>) \o next

InsertAt(list, k, x) ==
    SubSeq(list, 1, k - 1) \o << x >> \o SubSeq(list, k, Len(list))

\* the rule strings of the given kinds
RuleStrings(kinds) == { RuleText(r) : r \in { q \in Rules : q.kind \in kinds } }

\* C25: the validator is monotone in its rules.  For a fixed candidate, an
\* exact or range rule added anywhere to the rule list of an accepting call
\* leaves the call accepting, and an exclusion rule added anywhere to the
\* rule list of a rejecting call leaves the call rejecting.
C25_MonotoneInRules ==
    /\ Accepted
           => \A rule \in RuleStrings({"exact", "range"}) :
                  \A k \in 1..(Len(ARGN) + 1) :
                      CallOutcome(CPM_PACKAGE_VERSION, InsertAt(ARGN, k, rule))
                          = "approved"
    /\ Rejected
           => \A rule \in RuleStrings({"exclusion"}) :
                  \A k \in 1..(Len(ARGN) + 1) :
                      CallOutcome(CPM_PACKAGE_VERSION, InsertAt(ARGN, k, rule))
                          /= "approved"

\* C25 happens: an accepting call with two rules, and a range rule that does
\* not hold the candidate, to add in front of them.
C25_Witness ==
    /\ Accepted
    /\ IsVersion(candidate)
    /\ Len(ruleSet) = 2
    /\ \E r \in Rules :
           /\ r.kind = "range"
           /\ ~RuleAccepts(r, Triple(candidate.parts))
           /\ CallOutcome(CPM_PACKAGE_VERSION, InsertAt(ARGN, 1, RuleText(r)))
                  = "approved"

\* a range rule whose minimum is above its maximum
IsInvertedRange(rule) ==
    rule.kind = "range" /\ ~TripleLeq(Triple(rule.min), Triple(rule.max))

\* the acceptance rules of the list are such ranges, one at least, and the
\* other rules are exclusions
OnlyInvertedRanges(rules) ==
    /\ \E i \in 1..Len(rules) : IsInvertedRange(rules[i])
    /\ \A i \in 1..Len(rules) :
           IsInvertedRange(rules[i]) \/ rules[i].kind = "exclusion"

\* C26: a range rule whose minimum is greater than its maximum matches no
\* candidate: a rule list whose only acceptance rules are such ranges rejects
\* every candidate version with the mismatch error or the exclusion error.
C26_InvertedRangeMatchesNothing ==
    (Finished /\ IsVersion(candidate) /\ OnlyInvertedRanges(ruleSet))
        => (FailedWith("mismatch") \/ FailedWith("excluded"))

\* the candidate strings with the same first three components, missing ones
\* read as 0
SameTriple(c) ==
    { d \in Candidates :
          d.kind = "version" /\ Triple(d.parts) = Triple(c.parts) }

\* C27: the outcome of a call depends only on the (major, minor, patch) triple
\* of the candidate: every candidate string with the same first three
\* components, missing ones read as 0, is accepted under the rule list of the
\* call exactly when the candidate of the call is.
C27_OutcomeDependsOnTriple ==
    (Finished /\ candidate.kind = "version")
        => \A d \in SameTriple(candidate) :
               (CallOutcome(CandidateText(d), ARGN) = "approved") <=> Accepted

\* some exact rule of the list names the version t
SomeExactRuleNames(rules, t) ==
    \E i \in 1..Len(rules) : rules[i].kind = "exact" /\ Triple(rules[i].v) = t

\* C28: the missing-version error is raised only when no version could be
\* determined (the resolved version is empty): every non-empty numeric
\* candidate goes on to rule evaluation, and is accepted when an exact rule
\* names it and no exclusion does.
C28_MissingOnlyWhenEmpty ==
    /\ FailedWith("missing") => CPM_PACKAGE_VERSION = << >>
    /\ (Finished /\ IsVersion(candidate)
            /\ SomeExactRuleNames(ruleSet, Triple(candidate.parts))
            /\ ~SomeRuleExcludes(ruleSet, Triple(candidate.parts)))
           => Accepted

=============================================================================
